---- MODULE Spec2Model ----
(***************************************************************************)
(* Model of packages/webapp/scripts/build.js: the build script that parses *)
(* the invocation flags and then runs either the production build or the   *)
(* development build (dependency pre-bundle followed by the watch loop).   *)
(*                                                                         *)
(* The script's own statements are translated action by action, one action *)
(* per run of synchronous code between two awaits.  The bundler, the file  *)
(* watcher and node_modules are the script's environment: a bundling pass  *)
(* may succeed or throw, package metadata is whatever is installed, and    *)
(* the watcher delivers lifecycle events to the listener the script        *)
(* registers.                                                              *)
(***************************************************************************)
EXTENDS Naturals, Integers, Sequences, FiniteSets, TLC

(***************************************************************************)
(* Bounds of the model.                                                    *)
(***************************************************************************)
MaxArgs == 2        \* command-line arguments after process.argv.slice(2)
MaxDeps == 2        \* keys of package.json "dependencies"
MaxChanges == 3     \* source-change notifications delivered to the watcher
MaxPasses == 2      \* rebuild passes the watcher starts

Undefined == "undefined"

(***************************************************************************)
(* Flag parsing: yargs(process.argv.slice(2), {alias, boolean, default}).  *)
(***************************************************************************)
FlagNames(key) ==
    CASE key = "DEV" -> {"DEV", "dev", "watch", "d", "w"}
      [] key = "TS" -> {"TS", "typescript", "ts"}
      [] key = "VERBOSE" -> {"VERBOSE", "v", "verbose"}

\* An argument as the parser reads it: the option it names and the value it
\* gives it (--name and -n set a boolean option, --no-name clears it).
Arg(name, value) == [name |-> name, value |-> value]

ArgTokens ==
    { Arg(n, TRUE) : n \in FlagNames("DEV") \cup FlagNames("TS") \cup FlagNames("VERBOSE") }
    \cup { Arg("ts", FALSE), Arg("dev", FALSE) }

RECURSIVE ParseFlag(_, _, _)
ParseFlag(key, args, value) ==
    IF args = <<>> THEN value
    ELSE ParseFlag(key, Tail(args),
                   IF Head(args).name \in FlagNames(key) THEN Head(args).value ELSE value)

FlagDefault == FALSE

Flag(key, args) == ParseFlag(key, args, FlagDefault)

(***************************************************************************)
(* Paths.  A path is a sequence of segments; the output root is            *)
(* root('public/build').                                                   *)
(***************************************************************************)
OutputRoot == <<"public", "build">>
DependenciesDir == OutputRoot \o <<"dependencies">>

RECURSIVE Normalize(_)
Normalize(p) ==
    IF p = <<>> THEN <<>>
    ELSE IF Head(p) = "." THEN Normalize(Tail(p))
    ELSE <<Head(p)>> \o Normalize(Tail(p))

\* path.join / path.resolve of a relative path against a directory
Resolve(dir, rel) == dir \o Normalize(rel)

IsUnder(dir, p) == Len(p) > Len(dir) /\ SubSeq(p, 1, Len(dir)) = dir

Range(s) == { s[i] : i \in 1..Len(s) }

\* Files one output chunk produces: entryFileNames with [name] substituted,
\* and its source map when sourcemap is true.
Emitted(dir, fileName, sourcemap) ==
    { dir \o <<fileName>> } \cup
    (IF sourcemap THEN { dir \o <<fileName \o ".map">> } ELSE {})

\* rollup-plugin-clear with targets [root('public/build')]
Clear(fs, targets) == { f \in fs : \A t \in targets : ~IsUnder(t, f) }

VARIABLES
    argv,             \* process.argv.slice(2)
    dependenciesArr,  \* Object.keys(dependencies) of ../package.json
    files,            \* files on disk under the project root
    pc,               \* where the script is
    console,          \* what has been written to the operator's console
    exitCode,         \* -1 while the process runs, else its exit status
    err,              \* the error a rejected build promise carries
    transform,        \* the transpile plugin the running build was given
    input,            \* createDependenciesBundle: inputOptions.input built so far
    lastResolve,      \* the last getEntryPointPath call: name, metadata, result
    prebundle,        \* createDependenciesBundle: none, running, done, failed
    prebundleRuns,    \* how many times createDependenciesBundle was entered
    external,         \* startWatchMode: inputOptions.external
    paths,            \* startWatchMode: outputOptions.paths
    watchState,       \* the watcher: none, idle, building, watching-stable, watching-failed
    inFlight,         \* rebuild passes running now
    rerun,            \* rebuilds scheduled for after the pass in flight
    notified,         \* change notifications received during the pass in flight
    changes,          \* change notifications delivered so far
    passes,           \* rebuild passes started so far
    errorEvents,      \* ERROR events the watcher has emitted
    bundleImports     \* how the last written application bundle imports each dependency

config == <<argv, dependenciesArr>>
process == <<pc, console, exitCode, err>>
prebundleVars == <<input, lastResolve, prebundle, prebundleRuns>>
watchOptions == <<external, paths>>
watcher == <<watchState, inFlight, rerun, notified, changes, passes, errorEvents, bundleImports>>

vars == <<argv, dependenciesArr, files, pc, console, exitCode, err, transform,
          input, lastResolve, prebundle, prebundleRuns, external, paths,
          watchState, inFlight, rerun, notified, changes, passes, errorEvents,
          bundleImports>>

DEV == Flag("DEV", argv)
TS == Flag("TS", argv)
VERBOSE == Flag("VERBOSE", argv)

Log(out, line) == Append(out, line)
LogIf(cond, out, line) == IF cond THEN Append(out, line) ELSE out

(***************************************************************************)
(* Lines 36-46: the body of the script.                                    *)
(***************************************************************************)
ConfigurationSummary ==
    [kind |-> "configuration", dev |-> DEV, ts |-> (TS \/ ~DEV)]

Main ==
    /\ pc = "main"
    /\ console' = LogIf(VERBOSE, Log(console, [kind |-> "clear"]), ConfigurationSummary)
    /\ pc' = IF DEV THEN "developmentBuild" ELSE "productionBuild"
    /\ UNCHANGED <<config, files, exitCode, err, transform, prebundleVars,
                   watchOptions, watcher>>

(***************************************************************************)
(* productionBuild, lines 48-86.                                           *)
(***************************************************************************)
\* Mutant of ProductionClearTargets: the clear plugin is given no target
NoClearTargets == {}

ProductionClearTargets == {OutputRoot}

ProductionBuild ==
    /\ pc = "productionBuild"
    /\ console' = LogIf(VERBOSE, console, [kind |-> "started", what |-> "production"])
    /\ files' = Clear(files, ProductionClearTargets)
    /\ transform' = "typescript"
    /\ pc' = "production:rollup"
    /\ UNCHANGED <<config, exitCode, err, prebundleVars, watchOptions, watcher>>

\* await rollup.rollup(inputOptions): the bundle is built, or the call throws
ProductionRollup ==
    /\ pc = "production:rollup"
    /\ \E ok \in BOOLEAN :
        IF ok THEN pc' = "production:write" /\ err' = err
        ELSE pc' = "rejected" /\ err' = "production"
    /\ UNCHANGED <<config, files, console, exitCode, transform, prebundleVars,
                   watchOptions, watcher>>

ProductionOutput == Emitted(OutputRoot, "bundle.js", TRUE)

\* await bundle.write(outputOptions), then console.timeEnd
ProductionWrite ==
    /\ pc = "production:write"
    /\ \E ok \in BOOLEAN :
        IF ok
        THEN /\ files' = files \cup ProductionOutput
             /\ console' = Log(console, [kind |-> "completed", what |-> "production"])
             /\ pc' = "resolved"
             /\ err' = err
        ELSE /\ pc' = "rejected"
             /\ err' = "production"
             /\ UNCHANGED <<files, console>>
    /\ UNCHANGED <<config, exitCode, transform, prebundleVars, watchOptions, watcher>>

(***************************************************************************)
(* errorHandler, lines 208-211, attached by .catch at lines 45-46.         *)
(***************************************************************************)
\* Mutant of ErrorHandler: the error is printed and the process exits with 0
ErrorHandlerExitsZero ==
    /\ pc = "rejected"
    /\ console' = Log(console, [kind |-> "error", what |-> err])
    /\ exitCode' = 0
    /\ pc' = "exited"
    /\ UNCHANGED <<config, files, err, transform, prebundleVars, watchOptions, watcher>>

ErrorHandler ==
    /\ pc = "rejected"
    /\ console' = Log(console, [kind |-> "error", what |-> err])
    /\ exitCode' = 1
    /\ pc' = "exited"
    /\ UNCHANGED <<config, files, err, transform, prebundleVars, watchOptions, watcher>>

\* The production promise resolved and nothing is pending: the process ends.
Finish ==
    /\ pc = "resolved"
    /\ exitCode' = 0
    /\ pc' = "exited"
    /\ UNCHANGED <<config, files, console, err, transform, prebundleVars,
                   watchOptions, watcher>>

(***************************************************************************)
(* getEntryPointPath, lines 113-133.  The metadata is what                 *)
(* require(<name>/package.json) returns; the installed package is taken to *)
(* contain the files its metadata names, so require.resolve of a chosen    *)
(* file succeeds.                                                          *)
(***************************************************************************)
EntryFiles == {"a.js", "b.js"}

PackageMetadata ==
    [main : EntryFiles \cup {Undefined},
     module : EntryFiles \cup {Undefined},
     type : {"module", "commonjs", Undefined}]

\* const ManualMap = {}: a lookup finds only what Object.prototype provides,
\* and what it provides is a function, not a string.
ObjectPrototypeKeys == {"constructor", "toString", "valueOf", "hasOwnProperty"}
Inherited == "[Function]"
ManualMap(name) == IF name \in ObjectPrototypeKeys THEN Inherited ELSE Undefined

Or(a, b) == IF a # Undefined THEN a ELSE b

\* Mutant of ChosenEntry: the module field is preferred whatever the type
ChosenEntryModuleFirst(name, meta) ==
    Or(Or(meta.module, ManualMap(name)), meta.main)

ChosenEntry(name, meta) ==
    IF meta.type = "module" THEN meta.main
    ELSE Or(Or(meta.module, ManualMap(name)), meta.main)

\* path.join throws a TypeError on an argument that is not a string
IsString(x) == x \notin {Undefined, Inherited}

getEntryPointPath(name, meta) ==
    LET chosen == ChosenEntry(name, meta)
    IN IF IsString(chosen)
       THEN [threw |-> FALSE, path |-> <<"node_modules", name, chosen>>]
       ELSE [threw |-> TRUE, path |-> <<>>]

(***************************************************************************)
(* developmentBuild and createDependenciesBundle, lines 88-153.            *)
(***************************************************************************)
PrebundleClearTargets == {OutputRoot}

DevelopmentBuild ==
    /\ pc = "developmentBuild"
    /\ console' = LogIf(VERBOSE, console, [kind |-> "started", what |-> "development"])
    /\ files' = Clear(files, PrebundleClearTargets)
    /\ prebundle' = "running"
    /\ prebundleRuns' = prebundleRuns + 1
    /\ input' = <<>>
    /\ pc' = IF dependenciesArr = <<>> THEN "prebundle:rollup" ELSE "prebundle:input"
    /\ UNCHANGED <<config, exitCode, err, transform, lastResolve, watchOptions, watcher>>

\* One element of dependenciesArr.map((name) => [name, getEntryPointPath(name)])
ResolveDependency ==
    /\ pc = "prebundle:input"
    /\ LET name == dependenciesArr[Len(input) + 1]
       IN \E meta \in PackageMetadata :
            LET r == getEntryPointPath(name, meta)
            IN /\ lastResolve' = <<[name |-> name, meta |-> meta, result |-> r]>>
               /\ IF r.threw
                  THEN /\ pc' = "rejected"
                       /\ err' = "prebundle"
                       /\ prebundle' = "failed"
                       /\ UNCHANGED <<input, console>>
                  ELSE /\ input' = Append(input, [name |-> name, path |-> r.path])
                       /\ console' = LogIf(VERBOSE, console,
                                           [kind |-> "using", name |-> name, path |-> r.path])
                       /\ pc' = IF Len(input) + 1 = Len(dependenciesArr)
                                THEN "prebundle:rollup" ELSE "prebundle:input"
                       /\ UNCHANGED <<err, prebundle>>
    /\ UNCHANGED <<config, files, exitCode, transform, prebundleRuns, watchOptions, watcher>>

\* await rollup.rollup(inputOptions)
PrebundleRollup ==
    /\ pc = "prebundle:rollup"
    /\ \E ok \in BOOLEAN :
        IF ok THEN pc' = "prebundle:write" /\ UNCHANGED <<err, prebundle>>
        ELSE pc' = "rejected" /\ err' = "prebundle" /\ prebundle' = "failed"
    /\ UNCHANGED <<config, files, console, exitCode, transform, input, lastResolve,
                   prebundleRuns, watchOptions, watcher>>

\* One output file per key of inputOptions.input: entryFileNames '[name].js'
PrebundleOutput(entries) ==
    UNION { Emitted(DependenciesDir, entries[i].name \o ".js", TRUE) : i \in 1..Len(entries) }

\* await bundle.write(outputOptions); createDependenciesBundle returns and
\* developmentBuild resumes at line 93
PrebundleWrite ==
    /\ pc = "prebundle:write"
    /\ \E ok \in BOOLEAN :
        IF ok
        THEN /\ files' = files \cup PrebundleOutput(input)
             /\ console' = Log(console, [kind |-> "completed", what |-> "dependencies"])
             /\ prebundle' = "done"
             /\ pc' = "startWatchMode"
             /\ err' = err
        ELSE /\ pc' = "rejected"
             /\ err' = "prebundle"
             /\ prebundle' = "failed"
             /\ UNCHANGED <<files, console>>
    /\ input' = <<>>
    /\ lastResolve' = <<>>
    /\ UNCHANGED <<config, exitCode, transform, prebundleRuns, watchOptions, watcher>>

(***************************************************************************)
(* startWatchMode, lines 155-205.                                          *)
(***************************************************************************)
\* Mutant of TranspilePlugin: the watch build always type-checks
TranspilePluginAlwaysTyped == "typescript"

TranspilePlugin == IF TS THEN "typescript" ELSE "sucrase"

\* Mutant of PathTable: the name is left out of the path
PathTableUnnamed(deps) ==
    [k \in Range(deps) |-> <<".", "dependencies", "index.js">>]

\* outputOptions.paths, lines 185-187
PathTable(deps) ==
    [k \in Range(deps) |-> <<".", "dependencies", k \o ".js">>]

\* Mutant of External: no dependency is marked external
ExternalNone(deps) == <<>>

\* inputOptions.external, line 177
External(deps) == deps

\* Mutant of WatchModeReached: createDependenciesBundle() is not awaited
WatchModeReachedEarly ==
    pc \in {"prebundle:input", "prebundle:rollup", "prebundle:write", "startWatchMode"}

\* developmentBuild reaches line 95 only when the awaited pre-bundle resolved
WatchModeReached == pc = "startWatchMode"

StartWatchMode ==
    /\ WatchModeReached
    /\ console' = LogIf(VERBOSE, console, [kind |-> "starting-watch-mode"])
    /\ transform' = TranspilePlugin
    /\ external' = External(dependenciesArr)
    /\ paths' = PathTable(dependenciesArr)
    /\ watchState' = "idle"
    /\ pc' = "watching"
    /\ UNCHANGED <<config, files, exitCode, err, prebundleVars, inFlight, rerun,
                   notified, changes, passes, errorEvents, bundleImports>>

(***************************************************************************)
(* The listener of lines 198-204.                                          *)
(***************************************************************************)
\* Mutant of OnEvent: a failed pass is handed to errorHandler
OnEventFatal(proc, code, duration) ==
    IF code = "ERROR"
    THEN [console |-> Log(proc.console, [kind |-> "error", what |-> "watch"]),
          exitCode |-> 1]
    ELSE IF code = "BUNDLE_START"
    THEN [proc EXCEPT !.console = Log(@, [kind |-> "found-changes"])]
    ELSE IF code = "BUNDLE_END"
    THEN [proc EXCEPT !.console =
            Log(@, [kind |-> "completed-build", duration |-> duration])]
    ELSE proc

OnEvent(proc, code, duration) ==
    LET started ==
            IF code = "BUNDLE_START"
            THEN [proc EXCEPT !.console = Log(@, [kind |-> "found-changes"])]
            ELSE proc
    IN IF code = "BUNDLE_END"
       THEN [started EXCEPT !.console =
                Log(@, [kind |-> "completed-build", duration |-> duration])]
       ELSE started

\* watcher.emit('event', ...) for each event in turn, while the process lives
RECURSIVE Emit(_, _)
Emit(proc, events) ==
    IF events = <<>> \/ proc.exitCode # -1 THEN proc
    ELSE Emit(OnEvent(proc, Head(events).code, Head(events).duration), Tail(events))

Event(code, duration) == [code |-> code, duration |-> duration]

Deliver(events) ==
    LET proc == Emit([console |-> console, exitCode |-> exitCode], events)
    IN /\ console' = proc.console
       /\ exitCode' = proc.exitCode
       /\ pc' = IF proc.exitCode = -1 THEN pc ELSE "exited"
       /\ err' = err

(***************************************************************************)
(* The watcher made by rollup.watch at lines 192-196.                      *)
(***************************************************************************)
Durations == {12, 345}

\* The bundle a pass writes: outputOptions, lines 180-188
WatchOutput == Emitted(OutputRoot, "bundle.js", TRUE)

\* An import of a dependency in the written bundle: an external id is kept as
\* an import of its paths entry, anything else is inlined (no import is left)
Inlined == <<>>
RenderImport(d, ext, table) ==
    IF d \in Range(ext)
    THEN IF d \in DOMAIN table THEN table[d] ELSE <<d>>
    ELSE Inlined

\* Mutant of Schedule: every notification queues one more rebuild
ScheduleQueued(pending) == pending + 1

\* A notification that finds a pass in flight only marks a rerun as due
Schedule(pending) == 1

StartPass ==
    /\ passes < MaxPasses
    /\ watchState' = "building"
    /\ inFlight' = inFlight + 1
    /\ passes' = passes + 1
    /\ notified' = 0
    /\ rerun' = 0
    /\ Deliver(<<Event("START", 0), Event("BUNDLE_START", 0)>>)

\* idle -> building on loop start
WatcherRun ==
    /\ pc = "watching"
    /\ watchState = "idle"
    /\ StartPass
    /\ UNCHANGED <<config, files, transform, prebundleVars, watchOptions, changes,
                   errorEvents, bundleImports>>

\* A relevant source file changed
Change ==
    /\ pc = "watching"
    /\ changes < MaxChanges
    /\ changes' = changes + 1
    /\ \/ /\ watchState = "building"
          /\ rerun' = Schedule(rerun)
          /\ notified' = notified + 1
          /\ UNCHANGED <<process, watchState, inFlight, passes>>
       \/ /\ watchState \in {"watching-stable", "watching-failed"}
          /\ StartPass
    /\ UNCHANGED <<config, files, transform, prebundleVars, watchOptions,
                   errorEvents, bundleImports>>

\* The pass in flight ends: building -> watching-stable or watching-failed
BuildEnd ==
    /\ pc = "watching"
    /\ watchState = "building"
    /\ inFlight' = inFlight - 1
    /\ \/ /\ watchState' = "watching-stable"
          /\ files' = files \cup WatchOutput
          /\ bundleImports' =
                [d \in Range(dependenciesArr) |-> RenderImport(d, external, paths)]
          /\ errorEvents' = errorEvents
          /\ \E d \in Durations :
                Deliver(<<Event("BUNDLE_END", d), Event("END", 0)>>)
       \/ /\ watchState' = "watching-failed"
          /\ errorEvents' = errorEvents + 1
          /\ Deliver(<<Event("ERROR", 0), Event("END", 0)>>)
          /\ UNCHANGED <<files, bundleImports>>
    /\ UNCHANGED <<config, transform, prebundleVars, watchOptions, rerun, notified,
                   changes, passes>>

\* The rerun marked during the last pass is started
RunPending ==
    /\ pc = "watching"
    /\ watchState \in {"watching-stable", "watching-failed"}
    /\ rerun > 0
    /\ StartPass
    /\ UNCHANGED <<config, files, transform, prebundleVars, watchOptions, changes,
                   errorEvents, bundleImports>>

(***************************************************************************)
(* Initial states.                                                         *)
(***************************************************************************)
DepNames == {"lib-a", "lib-b", "constructor"}

RECURSIVE SeqsUpTo(_, _)
SeqsUpTo(S, n) ==
    IF n = 0 THEN {<<>>}
    ELSE LET shorter == SeqsUpTo(S, n - 1)
         IN shorter \cup { Append(s, x) : s \in shorter, x \in S }

NoDuplicates(s) == \A i, j \in 1..Len(s) : s[i] = s[j] => i = j

\* What an earlier invocation may have left on disk
StaleFiles ==
    { OutputRoot \o <<"bundle.js">>,
      OutputRoot \o <<"old.js">>,
      DependenciesDir \o <<"lib-a.js">>,
      <<"public", "index.html">> }

Manifests == { s \in SeqsUpTo(DepNames, MaxDeps) : NoDuplicates(s) }

InitProgram ==
    /\ pc = "main"
    /\ console = <<>>
    /\ exitCode = -1
    /\ err = Undefined
    /\ transform = Undefined
    /\ input = <<>>
    /\ lastResolve = <<>>
    /\ prebundle = "none"
    /\ prebundleRuns = 0
    /\ external = <<>>
    /\ paths = <<>>
    /\ watchState = "none"
    /\ inFlight = 0
    /\ rerun = 0
    /\ notified = 0
    /\ changes = 0
    /\ passes = 0
    /\ errorEvents = 0
    /\ bundleImports = <<>>

\* Typical command lines, any manifest, any leftover files
CommandLines ==
    { <<>>,
      <<Arg("v", TRUE)>>,
      <<Arg("dev", TRUE)>>,
      <<Arg("w", TRUE), Arg("ts", TRUE)>>,
      <<Arg("watch", TRUE), Arg("verbose", TRUE)>> }

Init ==
    /\ argv \in CommandLines
    /\ dependenciesArr \in Manifests
    /\ files \in SUBSET StaleFiles
    /\ InitProgram

\* Any command line, one dependency, an empty output directory
InitFlags ==
    /\ argv \in SeqsUpTo(ArgTokens, MaxArgs)
    /\ dependenciesArr = <<"lib-a">>
    /\ files = {}
    /\ InitProgram

Next ==
    \/ Main
    \/ ProductionBuild
    \/ ProductionRollup
    \/ ProductionWrite
    \/ ErrorHandler
    \/ Finish
    \/ DevelopmentBuild
    \/ ResolveDependency
    \/ PrebundleRollup
    \/ PrebundleWrite
    \/ StartWatchMode
    \/ WatcherRun
    \/ Change
    \/ BuildEnd
    \/ RunPending

Spec == Init /\ [][Next]_vars

SpecFlags == InitFlags /\ [][Next]_vars

\* The event loop runs a settled promise's catch callback and a due rerun,
\* and a bundling pass ends.
FairSpec ==
    /\ Spec
    /\ WF_vars(ErrorHandler)
    /\ WF_vars(RunPending)
    /\ WF_vars(BuildEnd)

(***************************************************************************)
(* Properties.                                                             *)
(***************************************************************************)
Watching == watchState \in {"watching-stable", "watching-failed"}

\* C1: in watch mode at most one rebuild pass is in flight at any time.  A
\* change notification that arrives during `building` starts no second pass;
\* however many arrive during one pass, exactly one rerun is due when the
\* pass ends (the backlog never exceeds one), and that rerun is started, as
\* one pass, only after the pass in flight has ended.
SingleRebuildInFlight ==
    /\ [](/\ inFlight <= 1
          /\ rerun <= 1
          /\ (inFlight = 1 <=> watchState = "building")
          /\ (notified > 0 => rerun = 1))
    /\ [][inFlight' > inFlight => inFlight = 0 /\ inFlight' = 1]_vars
    /\ [][changes' # changes /\ watchState = "building"
            => inFlight' = inFlight /\ passes' = passes /\ rerun' = 1]_vars
    /\ [][rerun > 0 /\ rerun' = 0
            => inFlight = 0 /\ inFlight' = 1 /\ passes' = passes + 1]_vars
    /\ (rerun = 1 /\ passes < MaxPasses) ~> (rerun = 0)

\* Two notifications arrived during the pass in flight: one pass is running
\* and one rerun is due.
SingleRebuildInFlightWitness ==
    /\ watchState = "building"
    /\ inFlight = 1
    /\ notified = 2
    /\ rerun = 1

\* C2: a failed rebuild leaves the watcher in watching-failed; from
\* watching-failed, as from watching-stable, the next source change takes it
\* to building; and once the watcher exists the process is in no terminal or
\* error state, whatever passes succeed or fail and whatever changes arrive.
WatchLoopNeverTerminal ==
    /\ [](watchState \in {"none", "idle", "building", "watching-stable", "watching-failed"})
    /\ [](watchState # "none" => pc = "watching" /\ exitCode = -1)
    /\ [][errorEvents' > errorEvents
            => watchState = "building" /\ watchState' = "watching-failed"]_vars
    /\ [][changes' # changes /\ Watching => watchState' = "building"]_vars

\* A pass failed, a change arrived in watching-failed, and a pass is running.
WatchLoopNeverTerminalWitness ==
    /\ errorEvents = 1
    /\ passes = 2
    /\ changes = 1
    /\ watchState = "building"
    /\ pc = "watching"

ErrorLine(what) == [kind |-> "error", what |-> what]

\* C3: an error of the production build or of the dependency pre-bundle is
\* printed and then the process exits with a non-zero status; an error of a
\* rebuild pass of the watch loop never ends the process.
FatalOnlyOutsideWatchLoop ==
    /\ [](pc = "rejected" => err \in {"production", "prebundle"} /\ exitCode = -1)
    /\ [](prebundle = "failed" => pc \in {"rejected", "exited"})
    /\ [][pc = "rejected"
            => /\ console' = Append(console, ErrorLine(err))
               /\ exitCode' = 1
               /\ pc' = "exited"]_vars
    /\ [](exitCode = 0 => err = Undefined)
    /\ [](exitCode > 0 => errorEvents = 0 /\ console[Len(console)] = ErrorLine(err))
    /\ [][errorEvents' > errorEvents => exitCode' = -1 /\ pc' = "watching"]_vars
    /\ (pc = "rejected") ~> (exitCode = 1)

\* The pre-bundle failed, the error was printed and the process exited with 1.
FatalOnlyOutsideWatchLoopWitness ==
    /\ prebundle = "failed"
    /\ pc = "exited"
    /\ exitCode = 1
    /\ console[Len(console)] = ErrorLine("prebundle")

\* C4: in a development invocation the pre-bundle runs exactly once and has
\* finished successfully before the watch loop exists or any rebuild pass
\* starts; no source change runs it again; and after a failed pre-bundle the
\* watch loop never starts.
PrebundleOnceBeforeWatch ==
    /\ [](prebundleRuns <= 1)
    /\ [](DEV /\ pc \notin {"main", "developmentBuild"} => prebundleRuns = 1)
    /\ [](watchState # "none" \/ passes > 0 \/ pc = "watching"
            => prebundle = "done" /\ prebundleRuns = 1)
    /\ [](prebundle = "failed"
            => watchState = "none" /\ passes = 0 /\ pc \in {"rejected", "exited"})
    /\ [][changes' # changes
            => prebundleRuns' = prebundleRuns /\ prebundle' = prebundle]_vars

\* After the one pre-bundle, changes arrived and passes ran.
PrebundleOnceBeforeWatchWitness ==
    /\ prebundle = "done"
    /\ prebundleRuns = 1
    /\ changes = 2
    /\ passes = 2

\* An argument names the type-check option, under any of its aliases
TypeCheckFlagGiven == \E i \in 1..Len(argv) : argv[i].name \in FlagNames("TS")

\* The last argument naming the type-check option sets it
TypeCheckRequested ==
    \E i \in 1..Len(argv) :
        /\ argv[i].name \in FlagNames("TS")
        /\ argv[i].value
        /\ \A j \in (i + 1)..Len(argv) : argv[j].name \notin FlagNames("TS")

DevelopmentRequested ==
    \E i \in 1..Len(argv) :
        /\ argv[i].name \in FlagNames("DEV")
        /\ argv[i].value
        /\ \A j \in (i + 1)..Len(argv) : argv[j].name \notin FlagNames("DEV")

\* C5, as stated: the build type-checks (applies the type-checking transform)
\* whenever development mode is requested without a type-check flag, and
\* always in production mode.
TypeCheckOnByDefault ==
    transform # Undefined =>
        /\ (DevelopmentRequested /\ ~TypeCheckFlagGiven => transform = "typescript")
        /\ (~DevelopmentRequested => transform = "typescript")

\* C5, amended: the build type-checks always in production mode, and in
\* development mode exactly when the type-check flag is set; development mode
\* without a type-check flag applies the untyped transform.
TypeCheckFollowsFlagInDevelopment ==
    transform # Undefined =>
        /\ (~DevelopmentRequested => transform = "typescript")
        /\ (DevelopmentRequested /\ TypeCheckRequested => transform = "typescript")
        /\ (DevelopmentRequested /\ ~TypeCheckRequested => transform = "sucrase")
        /\ (DevelopmentRequested /\ ~TypeCheckFlagGiven => transform = "sucrase")

\* Development mode without a type-check flag: the watch build was given the
\* untyped transform.
TypeCheckFollowsFlagInDevelopmentWitness ==
    /\ DevelopmentRequested
    /\ ~TypeCheckFlagGiven
    /\ pc = "watching"
    /\ transform = "sucrase"

Metadata(main, module, type) == [main |-> main, module |-> module, type |-> type]

EntryOf(call) == call.result.path[3]

\* C6, as stated: the rule yields an entry for any metadata that declares a
\* main or a module field; {main: a.js, module: b.js, type: module} yields
\* b.js and {main: a.js, type: commonjs} yields a.js.
EntryPointRuleAsStated ==
    \A i \in 1..Len(lastResolve) :
        LET call == lastResolve[i]
        IN /\ (call.meta.main # Undefined \/ call.meta.module # Undefined
                => ~call.result.threw)
           /\ (call.meta = Metadata("a.js", "b.js", "module")
                => ~call.result.threw /\ EntryOf(call) = "b.js")
           /\ (call.meta = Metadata("a.js", Undefined, "commonjs")
                => ~call.result.threw /\ EntryOf(call) = "a.js")

\* C6, amended: the rule is a function of the name and the metadata, first
\* match wins: the main field when type is module, else the module field,
\* else the manual map's entry, else the main field.  It yields an entry
\* exactly when the field so selected is declared (with type module that is
\* main alone; a name that Object.prototype defines selects no string unless
\* the module field is declared).  {main: a.js, module: b.js, type: module}
\* yields a.js; {main: a.js, type: commonjs} yields a.js for a name that
\* Object.prototype does not define.
EntryPointRuleFirstMatch ==
    \A i \in 1..Len(lastResolve) :
        LET call == lastResolve[i]
            m == call.meta
            selected ==
                IF m.type = "module" THEN m.main
                ELSE IF m.module # Undefined THEN m.module
                ELSE IF call.name \in ObjectPrototypeKeys THEN Inherited
                ELSE m.main
        IN /\ call.result.threw <=> selected \notin EntryFiles
           /\ ~call.result.threw
                => call.result.path = <<"node_modules", call.name, selected>>
           /\ (m = Metadata("a.js", "b.js", "module")
                => ~call.result.threw /\ EntryOf(call) = "a.js")
           /\ (m = Metadata("a.js", Undefined, "commonjs")
                    /\ call.name \notin ObjectPrototypeKeys
                => ~call.result.threw /\ EntryOf(call) = "a.js")

\* The rule was applied to {main: a.js, module: b.js, type: module}
EntryPointRuleFirstMatchWitness ==
    /\ Len(lastResolve) = 1
    /\ lastResolve[1].meta = Metadata("a.js", "b.js", "module")
    /\ ~lastResolve[1].result.threw
    /\ EntryOf(lastResolve[1]) = "a.js"

Declared == Range(dependenciesArr)

\* C7: the path table's domain is exactly the declared dependency names, each
\* name maps to dependencies/<name>.js formed from that name, distinct names
\* map to distinct paths, and an empty manifest gives an empty table.
PathTableBijection ==
    watchState # "none" =>
        /\ DOMAIN paths = Declared
        /\ \A k \in DOMAIN paths : Normalize(paths[k]) = <<"dependencies", k \o ".js">>
        /\ \A j, k \in DOMAIN paths : paths[j] = paths[k] => j = k
        /\ (dependenciesArr = <<>> => paths = <<>>)

\* The table was built for two declared dependencies
PathTableBijectionWitness ==
    /\ watchState # "none"
    /\ Cardinality(Declared) = 2
    /\ Cardinality({ paths[k] : k \in DOMAIN paths }) = 2

ProductionSucceeded == ~DEV /\ (pc = "resolved" \/ (pc = "exited" /\ exitCode = 0))

\* C8: after a successful production invocation the output root holds
\* exactly bundle.js and bundle.js.map and no dependencies subdirectory,
\* whatever it held before; production mode never runs the pre-bundle or the
\* watcher.
ProductionOutputExact ==
    /\ ProductionSucceeded
        => /\ { f \in files : IsUnder(OutputRoot, f) }
                = { OutputRoot \o <<"bundle.js">>, OutputRoot \o <<"bundle.js.map">> }
           /\ ~\E f \in files : IsUnder(DependenciesDir, f)
    /\ ~DEV => /\ prebundleRuns = 0
               /\ prebundle = "none"
               /\ watchState = "none"
               /\ passes = 0
               /\ pc \notin {"developmentBuild", "prebundle:input", "prebundle:rollup",
                             "prebundle:write", "startWatchMode", "watching"}

\* A production invocation succeeded and exited
ProductionOutputExactWitness ==
    /\ ProductionSucceeded
    /\ pc = "exited"
    /\ OutputRoot \o <<"bundle.js.map">> \in files
    /\ <<"public", "index.html">> \in files

Prebundled == { d \in DepNames : DependenciesDir \o <<d \o ".js">> \in files }

\* C9: in a development invocation, once the watch loop exists, the names
\* marked external, the names with a rewritten path and the names with a
\* pre-bundled file dependencies/<name>.js are each exactly the declared
\* dependencies; in every written bundle each declared dependency is imported
\* from ./dependencies/<name>.js, a file on disk, and is never inlined.
ExternalizedDependenciesConsistent ==
    watchState # "none" =>
        /\ Range(external) = Declared
        /\ DOMAIN paths = Declared
        /\ Prebundled = Declared
        /\ \A d \in DOMAIN bundleImports :
            /\ bundleImports[d] # Inlined
            /\ bundleImports[d] = <<".", "dependencies", d \o ".js">>
            /\ Resolve(OutputRoot, bundleImports[d]) \in files
        /\ (watchState = "watching-stable" => DOMAIN bundleImports = Declared)

\* A rebuild pass wrote a bundle that imports two declared dependencies
ExternalizedDependenciesConsistentWitness ==
    /\ watchState = "watching-stable"
    /\ Cardinality(Declared) = 2
    /\ DOMAIN bundleImports = Declared
    /\ passes = 2

\* C10: every failed rebuild pass of the watch loop is logged: for each ERROR
\* event the watcher emitted, the operator's console has an error line.
WatchErrorsLogged ==
    errorEvents <= Cardinality({ i \in 1..Len(console) : console[i].kind = "error" })
====
